---------------------------- MODULE Spec2Model ----------------------------
(***************************************************************************)
(* A model of two scripted modules of the application:                     *)
(*                                                                         *)
(*   - DMRIInstall.py: the widget that installs the SlicerDMRI extension   *)
(*     through the extensions manager model (onApply / onError / setup);   *)
(*   - SliceViewAnnotations.py: the SliceAnnotations object that reacts to *)
(*     slice-logic Modified events and settings clicks by recomputing the  *)
(*     four corner texts of each slice view, with its cache of extracted   *)
(*     DICOM values.                                                       *)
(*                                                                         *)
(* Texts are TLA+ strings: Len, \o and SubSeq act on them as on Python     *)
(* strings, so slicing, truncation and formatting are computed, not        *)
(* assumed.  A method of SliceAnnotations is an operator from the          *)
(* object's state (a record w, built by World from the variables) to the   *)
(* state after the call; an action applies the whole handler and commits   *)
(* the result.                                                             *)
(***************************************************************************)
EXTENDS Integers, Sequences, FiniteSets, TLC

(***************************************************************************)
(* Bounds of the model.                                                    *)
(***************************************************************************)
\* onApply clicks and widget set-ups counted in the installer model
MaxApply == 3
\* distinct instance uids requested from the cache: one more than it holds
MaxUid == 13
\* lookups of cached uids in one run of the cache
MaxHits == 2
\* longest text handed to fitText
MaxTextLen == 12
\* widest slice view, in pixels, whose texts are fitted
MaxViewWidth == 200
\* longest cached birth date with which a view is still refreshed
MaxBirthDateLen == 10

(***************************************************************************)
(* Python string and number primitives used by the code.                   *)
(***************************************************************************)
Min(a, b) == IF a < b THEN a ELSE b

Max(a, b) == IF a > b THEN a ELSE b

\* a slice index as Python normalises it for a string of length n
PyIndex(i, n) == IF i < 0 THEN Max(i + n, 0) ELSE Min(i, n)

\* s[a:b]
PySlice(s, a, b) == SubSeq(s, PyIndex(a, Len(s)) + 1, PyIndex(b, Len(s)))

\* s[:b]
PySliceTo(s, b) == PySlice(s, 0, b)

\* s[a:]
PySliceFrom(s, a) == PySlice(s, a, Len(s))

\* int(a / b) for integers a and b > 0: the quotient truncated toward zero
PyIntDiv(a, b) == IF a >= 0 THEN a \div b ELSE -((-a) \div b)

DigitChars == <<"0", "1", "2", "3", "4", "5", "6", "7", "8", "9">>

RECURSIVE NatToStr(_)
NatToStr(n) == IF n < 10 THEN DigitChars[n + 1]
               ELSE NatToStr(n \div 10) \o DigitChars[(n % 10) + 1]

\* str(n) and "%d" % n
IntToStr(n) == IF n < 0 THEN "-" \o NatToStr(-n) ELSE NatToStr(n)

DigitValue(c) == CHOOSE d \in 0..9 : DigitChars[d + 1] = c

IsDigits(s) == /\ Len(s) > 0
               /\ \A i \in 1..Len(s) : \E d \in 0..9 : DigitChars[d + 1] = SubSeq(s, i, i)

RECURSIVE DigitsToInt(_)
\* int(s) for a string of decimal digits
DigitsToInt(s) == IF Len(s) = 0 THEN 0
                  ELSE 10 * DigitsToInt(SubSeq(s, 1, Len(s) - 1))
                       + DigitValue(SubSeq(s, Len(s), Len(s)))

RECURSIVE ReplaceCaret(_)
\* s.replace("^", ", ")
ReplaceCaret(s) == IF Len(s) = 0 THEN ""
                   ELSE (IF SubSeq(s, 1, 1) = "^" THEN ", " ELSE SubSeq(s, 1, 1))
                        \o ReplaceCaret(SubSeq(s, 2, Len(s)))

RECURSIVE RStrip(_)
\* s.rstrip()
RStrip(s) == IF Len(s) > 0 /\ SubSeq(s, Len(s), Len(s)) = " "
             THEN RStrip(SubSeq(s, 1, Len(s) - 1))
             ELSE s

RECURSIVE PartitionHead(_)
\* s.partition(" ")[0]: the text before the first space
PartitionHead(s) == IF Len(s) = 0 \/ SubSeq(s, 1, 1) = " " THEN ""
                    ELSE SubSeq(s, 1, 1) \o PartitionHead(SubSeq(s, 2, Len(s)))

(***************************************************************************)
(* The static methods of SliceAnnotations.                                 *)
(***************************************************************************)
fitText(text, textSize) ==
    IF Len(text) > textSize
    THEN LET preSize == PyIntDiv(textSize, 2)
             postSize == preSize - 3
         IN PySliceTo(text, preSize) \o "..." \o PySliceFrom(text, -postSize)
    ELSE text

formatDICOMDate(date) ==
    IF date # ""
    THEN LET d == RStrip(date)
         IN PySliceTo(d, 4) \o "-" \o PySlice(d, 4, 6) \o "-" \o PySliceFrom(d, 6)
    ELSE ""

\* int(studyH) raises ValueError unless studyH is a number
formatDICOMTimeRaises(time) == time # "" /\ ~IsDigits(PySliceTo(time, 2))

formatDICOMTime(time) ==
    IF time = "" THEN ""
    ELSE LET studyH == PySliceTo(time, 2)
             pm == DigitsToInt(studyH) > 12
             hour == IF pm THEN IntToStr(DigitsToInt(studyH) - 12) ELSE studyH
             clockTime == IF pm THEN " PM" ELSE " AM"
         IN hour \o ":" \o PySlice(time, 2, 4) \o ":" \o PySlice(time, 4, 6) \o clockTime

makePatientInfo(dicomDic) ==
    dicomDic["Patient Birth Date"] \o ", " \o dicomDic["Patient Age"]
        \o ", " \o dicomDic["Patient Sex"]


(***************************************************************************)
(* State.                                                                  *)
(***************************************************************************)
VARIABLES
    \* DMRIInstall: the extensions manager model and the widget
    emmInstalled,           \* emm.isExtensionInstalled("SlicerDMRI")
    emmInteractive,         \* emm.interactive
    textBox,                \* the html shown by self.textBox
    applyButtonEnabled,     \* self.applyButton.enabled
    applyCalls,             \* what the last onApply asked of the host
    widgetInstallCalls,     \* install-by-name calls issued from this widget
    widgetInstallFailed,    \* an install call of this widget returned failure
    applyCount,             \* onApply invocations so far
    \* SliceAnnotations
    self,                   \* the fields of the SliceAnnotations object
    gui,                    \* the state of the widgets of settings.ui
    settings,               \* qt.QSettings: DataProbe/sliceViewAnnotations.*
    cornerAnnotation,       \* per view, the text of its four vtkCornerAnnotation positions
    \* the host application as SliceAnnotations reads it
    layout,                 \* layoutManager.sliceViewNames()
    sliceLogic,             \* per view: its nodes, layers, slab settings and size
    dicomDatabaseIsOpen,    \* slicer.dicomDatabase.isOpen
    parameterNode,          \* the sliceViewAnnotationsEnabled parameter
    \* what the last handler did
    calls,                  \* SetText / scheduleRender / database calls it made
    cacheCall,              \* the last extractDICOMValues call made on its own
    fitCall,                \* the last fitText call made on its own
    lastOp                  \* its name

installVars == <<emmInstalled, emmInteractive, textBox, applyButtonEnabled,
                 applyCalls, widgetInstallCalls, widgetInstallFailed, applyCount>>

annotationVars == <<self, gui, settings, cornerAnnotation, calls>>

hostVars == <<layout, sliceLogic, dicomDatabaseIsOpen, parameterNode>>

vars == <<installVars, annotationVars, hostVars, cacheCall, fitCall, lastOp>>

(***************************************************************************)
(* DMRIInstall.py                                                          *)
(***************************************************************************)
applicationVersion == "5.9.0"

repositoryRevision == "33000"

platform == "linux-amd64"

helpText == "The SlicerDMRI extension provides diffusion-related tools"

alreadyInstalledText == "<h4>SlicerDMRI is already installed.<h4>"

errorText ==
    "<h5 style=\"color:red\">The SlicerDMRI extension is currently unavailable.</h5><br>"
        \o "Slicer version: " \o applicationVersion \o "<br>"
        \o "Slicer revision: " \o repositoryRevision \o "<br>"
        \o "Platform: " \o platform

\* the host calls of one onApply, in order, and what the install call returned
NoCalls == [log |-> <<>>, installResult |-> "none"]

CountOf(log, call) == Cardinality({i \in 1..Len(log) : log[i] = call})

\* the widget and the manager as onApply sees and changes them
InstallState == [installed |-> emmInstalled, interactive |-> emmInteractive,
                 textBox |-> textBox, applyButtonEnabled |-> applyButtonEnabled,
                 calls |-> NoCalls]

HostCall(st, call) == [st EXCEPT !.calls.log = Append(@, call)]

\* downloadAndInstallExtensionByName: blocking, returns success or failure
InstallByName(st, installSucceeds) ==
    [HostCall(st, "downloadAndInstallExtensionByName") EXCEPT
        !.installed = installSucceeds,
        !.calls.installResult = IF installSucceeds THEN "success" ELSE "failure"]

onErrorKeepsButton(st) == [st EXCEPT !.textBox = errorText]

onError(st) == [st EXCEPT !.applyButtonEnabled = FALSE, !.textBox = errorText]

onApplyUpdatesFirst(st, installSucceeds) ==
    LET prepared == HostCall([st EXCEPT !.interactive = FALSE],
                             "updateExtensionsMetadataFromServer")
    IN IF st.installed
       THEN [prepared EXCEPT !.textBox = alreadyInstalledText,
                             !.applyButtonEnabled = FALSE]
       ELSE LET called == InstallByName(prepared, installSucceeds)
            IN IF ~installSucceeds THEN onError(called)
               ELSE HostCall(called, "confirmRestart")

onApplyFallsThrough(st, installSucceeds) ==
    IF st.installed
    THEN [st EXCEPT !.textBox = alreadyInstalledText, !.applyButtonEnabled = FALSE]
    ELSE LET prepared == HostCall([st EXCEPT !.interactive = FALSE],
                                  "updateExtensionsMetadataFromServer")
             called == InstallByName(prepared, installSucceeds)
         IN HostCall(IF installSucceeds THEN called ELSE onError(called),
                     "confirmRestart")

\* installSucceeds: what downloadAndInstallExtensionByName returns, if called
onApply(st, installSucceeds) ==
    IF st.installed
    THEN [st EXCEPT !.textBox = alreadyInstalledText, !.applyButtonEnabled = FALSE]
    ELSE LET prepared == HostCall([st EXCEPT !.interactive = FALSE],
                                  "updateExtensionsMetadataFromServer")
             called == InstallByName(prepared, installSucceeds)
         IN IF ~installSucceeds THEN onError(called)
            ELSE HostCall(called, "confirmRestart")

\* DMRIInstallWidget.setup: a fresh text box and an enabled button
setup ==
    /\ textBox' = helpText
    /\ applyButtonEnabled' = TRUE
    /\ applyCalls' = NoCalls
    /\ widgetInstallCalls' = 0
    /\ widgetInstallFailed' = FALSE
    /\ lastOp' = "setup"
    /\ UNCHANGED <<emmInstalled, emmInteractive, applyCount>>
    /\ UNCHANGED <<annotationVars, hostVars, cacheCall, fitCall>>

\* clicked() reaches onApply only from an enabled button
ClickApply ==
    /\ applyButtonEnabled
    /\ applyCount < MaxApply
    /\ \E installSucceeds \in BOOLEAN :
          LET st == onApply(InstallState, installSucceeds)
          IN /\ emmInstalled' = st.installed
             /\ emmInteractive' = st.interactive
             /\ textBox' = st.textBox
             /\ applyButtonEnabled' = st.applyButtonEnabled
             /\ applyCalls' = st.calls
             /\ widgetInstallCalls' = widgetInstallCalls
                   + CountOf(st.calls.log, "downloadAndInstallExtensionByName")
             /\ widgetInstallFailed' =
                   (widgetInstallFailed \/ st.calls.installResult = "failure")
    /\ applyCount' = applyCount + 1
    /\ lastOp' = "onApply"
    /\ UNCHANGED <<annotationVars, hostVars, cacheCall, fitCall>>

\* the user installs or removes the extension in the extensions manager
HostSetInstalled ==
    /\ emmInstalled' = ~emmInstalled
    /\ lastOp' = "host"
    /\ UNCHANGED <<emmInteractive, textBox, applyButtonEnabled, applyCalls,
                   widgetInstallCalls, widgetInstallFailed, applyCount>>
    /\ UNCHANGED <<annotationVars, hostVars, cacheCall, fitCall>>

\* other code of the application turns the manager's popups back on
HostSetInteractive ==
    /\ ~emmInteractive
    /\ emmInteractive' = TRUE
    /\ lastOp' = "host"
    /\ UNCHANGED <<emmInstalled, textBox, applyButtonEnabled, applyCalls,
                   widgetInstallCalls, widgetInstallFailed, applyCount>>
    /\ UNCHANGED <<annotationVars, hostVars, cacheCall, fitCall>>

(***************************************************************************)
(* SliceViewAnnotations.py: constants of the class and of the host.        *)
(***************************************************************************)
DEFAULTS == [enabled |-> 1, displayLevel |-> 0, topLeft |-> 0, topRight |-> 0,
             bottomLeft |-> 1, fontFamily |-> "Times", fontSize |-> 14,
             bgDICOMAnnotationsPersistence |-> 0]

extractedDICOMValuesCacheSize == 12

\* the names layoutManager.sliceViewNames() can return, in the order the
\* layout creates the views
AllViews == <<"Red", "Yellow">>

Views == {AllViews[i] : i \in 1..Len(AllViews)}

Corners == 0..3

\* sorted(cornerText.keys()) of each of the four dictionaries of cornerTexts
CornerKeys(i) ==
    CASE i = 0 -> <<"1-Label", "2-Foreground", "3-Background">>
      [] i = 1 -> <<"1-TR", "2-TE">>
      [] i = 2 -> <<"1-PatientName", "2-PatientID", "3-PatientInfo",
                    "4-Bg-SeriesDate", "5-Fg-SeriesDate", "6-Bg-SeriesTime",
                    "7-Bg-SeriesTime", "8-Bg-SeriesDescription",
                    "9-Fg-SeriesDescription">>
      [] i = 3 -> <<"1-Institution-Name", "2-Referring-Phisycian",
                    "3-Manufacturer", "4-Model", "5-Patient-Position", "6-TR",
                    "7-TE", "8-SlabReconstructionThickness",
                    "9-SlabReconstructionType">>

KeySet(i) == {CornerKeys(i)[k] : k \in 1..Len(CornerKeys(i))}

\* cornerText[key]["category"]
Category(i, key) ==
    CASE i = 0 -> "A"
      [] i = 1 -> "A"
      [] i = 2 -> IF key = "2-PatientID" THEN "A"
                  ELSE IF key \in {"1-PatientName", "3-PatientInfo",
                                   "4-Bg-SeriesDate", "5-Fg-SeriesDate"} THEN "B"
                  ELSE "C"
      [] i = 3 -> IF key \in {"1-Institution-Name", "2-Referring-Phisycian"} THEN "B"
                  ELSE IF key \in {"3-Manufacturer", "4-Model"} THEN "C"
                  ELSE "A"

\* the "text" entries of cornerTexts as __init__ leaves them
EmptyCornerTexts == [i \in Corners |-> [key \in KeySet(i) |-> ""]]

\* a vtkCornerAnnotation with no text
NoText == [i \in Corners |-> ""]

\* the tags extractDICOMValues reads, by the name it stores each under
tags == [name \in {"Series Date", "Series Time", "Modality", "Manufacturer",
                   "Institution Name", "Referring Physician Name",
                   "Series Description", "Model", "Patient Name", "Patient ID",
                   "Patient Birth Date", "Patient Sex", "Patient Age",
                   "Patient Position", "Repetition Time", "Echo Time"} |->
    CASE name = "Series Date" -> "0008,0021"
      [] name = "Series Time" -> "0008,0031"
      [] name = "Modality" -> "0008,0060"
      [] name = "Manufacturer" -> "0008,0070"
      [] name = "Institution Name" -> "0008,0080"
      [] name = "Referring Physician Name" -> "0008,0090"
      [] name = "Series Description" -> "0008,103e"
      [] name = "Model" -> "0008,1090"
      [] name = "Patient Name" -> "0010,0010"
      [] name = "Patient ID" -> "0010,0020"
      [] name = "Patient Birth Date" -> "0010,0030"
      [] name = "Patient Sex" -> "0010,0040"
      [] name = "Patient Age" -> "0010,1010"
      [] name = "Patient Position" -> "0018,5100"
      [] name = "Repetition Time" -> "0018,0080"
      [] name = "Echo Time" -> "0018,0081"]

(***************************************************************************)
(* The content of the host the handlers are run against: four DICOM        *)
(* instances (three series of one patient, one of which has its birth date *)
(* padded with a space, and one series of another patient), and the volume *)
(* nodes that can be put in a slice view.                                  *)
(***************************************************************************)
NoVolume == "None"

DicomInstances == {"1.1", "2.1", "3.1", "4.1"}

\* slicer.dicomDatabase.instanceValue(uid, tag); "" for what the database lacks
instanceValue(uid, tag) ==
    IF uid \notin DicomInstances THEN ""
    ELSE CASE tag = "0010,0010" -> IF uid = "3.1" THEN "Roe^Ann" ELSE "Doe^Jo"
           [] tag = "0010,0020" -> IF uid = "3.1" THEN "P2" ELSE "P1"
           [] tag = "0010,0030" -> IF uid = "3.1" THEN "19801130"
                                   ELSE IF uid = "4.1" THEN "19700102 "
                                   ELSE "19700102"
           [] tag = "0010,0040" -> IF uid = "3.1" THEN "F" ELSE "M"
           [] tag = "0010,1010" -> IF uid = "3.1" THEN "040Y" ELSE "050Y"
           [] tag = "0008,0021" -> IF uid = "1.1" THEN "20200304" ELSE "20200305"
           [] tag = "0008,0031" -> IF uid = "1.1" THEN "093000" ELSE "143000"
           [] tag = "0008,103e" -> IF uid = "1.1" THEN "T1" ELSE "T2"
           [] tag = "0008,0060" -> IF uid = "3.1" THEN "CT" ELSE "MR"
           [] tag = "0008,0070" -> "GE"
           [] tag = "0008,0080" -> "BWH"
           [] tag = "0008,0090" -> "Who^Dr"
           [] tag = "0008,1090" -> "Signa"
           [] tag = "0018,5100" -> "HFS"
           [] tag = "0018,0080" -> IF uid = "3.1" THEN "" ELSE "500"
           [] tag = "0018,0081" -> IF uid = "3.1" THEN "" ELSE "20"
           [] OTHER -> ""

\* volume nodes: GetName() and GetAttribute("DICOM.instanceUIDs") ("" for None)
VolumeNodes ==
    [vol \in {"MR1", "MR2", "MR3", "CT", "Seg"} |->
        CASE vol = "MR1" -> [name |-> "MR1", instanceUIDs |-> "1.1 1.2 1.3"]
          [] vol = "MR2" -> [name |-> "MR2", instanceUIDs |-> "2.1"]
          [] vol = "MR3" -> [name |-> "MR3", instanceUIDs |-> "4.1"]
          [] vol = "CT" -> [name |-> "CT", instanceUIDs |-> "3.1 3.2"]
          [] vol = "Seg" -> [name |-> "Seg", instanceUIDs |-> ""]]

\* opacities are multiples of a quarter, which "%d" % (opacity * 100) renders exactly
OpacityPercent(quarters) == (quarters * 100) \div 4

\* a freshly created slice view: nodes set, no layers, no slab reconstruction
EmptySliceLogic ==
    [compositeNode |-> TRUE, sliceNode |-> TRUE,
     background |-> NoVolume, foreground |-> NoVolume, label |-> NoVolume,
     foregroundOpacity |-> 2, labelOpacity |-> 4,
     slabReconstructionEnabled |-> FALSE, slabReconstructionThickness |-> "1.0",
     slabReconstructionType |-> "Max",
     width |-> 400, height |-> 300]

\* unitNode.GetSuffix() of the length unit
lengthSuffix == "mm"

(***************************************************************************)
(* SliceViewAnnotations.py: the methods.  w is the state a handler works   *)
(* on: the object (w.self), its widgets (w.gui), the settings store, the   *)
(* corner annotations of the views, the host as the handler reads it       *)
(* (w.host) and the calls made so far (w.calls).  After an uncaught Python *)
(* exception (w.calls.raised) the rest of the handler does nothing.        *)
(***************************************************************************)
NoAnnotationCalls ==
    [setText |-> [v \in Views |-> [i \in Corners |-> 0]],
     scheduleRender |-> [v \in Views |-> 0],
     dbLookups |-> 0,
     discovered |-> 0,
     caller |-> "None",
     raised |-> FALSE]

World ==
    [self |-> self, gui |-> gui, settings |-> settings,
     cornerAnnotation |-> cornerAnnotation,
     host |-> [layout |-> layout, sliceLogic |-> sliceLogic,
               dicomDatabaseIsOpen |-> dicomDatabaseIsOpen,
               parameterNode |-> parameterNode],
     calls |-> NoAnnotationCalls]

Raise(w) == [w EXCEPT !.calls.raised = TRUE]

BoolToInt(b) == IF b THEN 1 ELSE 0

\* settings.setValue("DataProbe/sliceViewAnnotations." + key, value)
setValue(w, key, value) ==
    [w EXCEPT !.settings = [k \in (DOMAIN @) \cup {key} |->
                               IF k = key THEN value ELSE @[k]]]

\* settingsValue("DataProbe/sliceViewAnnotations." + key, DEFAULTS[key])
settingsValue(store, key) == IF key \in DOMAIN store THEN store[key] ELSE DEFAULTS[key]

\* cornerAnnotation.SetText(position, text) on the view's corner annotation
SetText(w, v, position, text) ==
    [w EXCEPT !.cornerAnnotation[v][position] = text,
              !.calls.setText[v][position] = @ + 1]

scheduleRender(w, v) == [w EXCEPT !.calls.scheduleRender[v] = @ + 1]

\* self.cornerTexts[i][key]["text"] = text
SetCornerText(w, i, key, text) == [w EXCEPT !.self.cornerTexts[i][key] = text]

\* if test: self.cornerTexts[i][key]["text"] = text
SetCornerTextIf(test, w, i, key, text) ==
    IF test THEN [w EXCEPT !.self.cornerTexts[i][key] = text] ELSE w

\* for key in self.cornerTexts[i]: self.cornerTexts[i][key]["text"] = ""
ClearCorner(w, i) == [w EXCEPT !.self.cornerTexts[i] = [key \in KeySet(i) |-> ""]]

resetTexts(w) == [w EXCEPT !.self.cornerTexts = EmptyCornerTexts]

(***************************************************************************)
(* The cache of extracted DICOM values: an OrderedDict, here the sequence  *)
(* of its items in insertion order.                                        *)
(***************************************************************************)
CacheUids(cache) == {cache[i].uid : i \in 1..Len(cache)}

CacheIndex(cache, uid) == CHOOSE i \in 1..Len(cache) : cache[i].uid = uid

\* self.extractedDICOMValuesCache[uid] = p for a uid that is not a key yet
CachePut(cache, uid, p) == Append(cache, [uid |-> uid, values |-> p])

popitemNewest(cache) == SubSeq(cache, 1, Len(cache) - 1)

\* self.extractedDICOMValuesCache.popitem(last=False)
popitem(cache) == Tail(cache)

\* the values the DICOM database holds for the instance
databaseValues(uid) == [name \in DOMAIN tags |-> instanceValue(uid, tags[name])]

\* self.extractedDICOMValuesCache[uid] = p for a new uid, and the eviction
CacheStore(cache, uid, p) ==
    LET DropOldest(stored) ==
            IF Len(stored) > extractedDICOMValuesCacheSize THEN popitem(stored)
            ELSE stored
    IN DropOldest(CachePut(cache, uid, p))

\* the result is the state after the call (w) and the dictionary returned (p)
extractDICOMValues(w, uid) ==
    LET Store(p) ==
            [w |-> [w EXCEPT !.self.extractedDICOMValuesCache = CacheStore(@, uid, p),
                             !.calls.dbLookups = @ + 1],
             p |-> p]
    IN IF uid \in CacheUids(w.self.extractedDICOMValuesCache)
       THEN [w |-> w,
             p |-> w.self.extractedDICOMValuesCache[
                       CacheIndex(w.self.extractedDICOMValuesCache, uid)].values]
       ELSE Store(databaseValues(uid))

\* dicomDic[name] = value, where dicomDic is the dictionary extractDICOMValues
\* returned for uid: the very object the cache holds while uid is a key of it
AssignThroughCache(w, uid, name, value) ==
    IF uid \in CacheUids(w.self.extractedDICOMValuesCache)
    THEN [w EXCEPT !.self.extractedDICOMValuesCache[
                       CacheIndex(w.self.extractedDICOMValuesCache, uid)].values[name]
                       = value]
    ELSE w

(***************************************************************************)
(* makeDicomAnnotation                                                     *)
(***************************************************************************)
\* lines 538-571: background and foreground are volumes of one patient; bgDic
\* is backgroundDicomDic once its birth date is formatted
PatientTexts(w2, bgUid, backgroundDicomDic, foregroundDicomDic, bgDic) ==
    LET
        datesDiffer == bgDic["Series Date"] # foregroundDicomDic["Series Date"]
        timesDiffer == bgDic["Series Time"] # foregroundDicomDic["Series Time"]
        descriptionsDiffer ==
            bgDic["Series Description"] # foregroundDicomDic["Series Description"]
        \* if "7-Fg-SeriesTime" in self.cornerTexts[2]: that key is not one
        fgTimeSet == timesDiffer /\ "7-Fg-SeriesTime" \in KeySet(2)
        SeriesDescription(w8) ==
            SetCornerTextIf(descriptionsDiffer,
                SetCornerText(w8, 2, "8-Bg-SeriesDescription",
                    (IF descriptionsDiffer THEN "B: " ELSE "")
                        \o bgDic["Series Description"]),
                2, "9-Fg-SeriesDescription",
                "F: " \o foregroundDicomDic["Series Description"])
        FgSeriesTime(w) ==
            IF fgTimeSet /\ formatDICOMTimeRaises(foregroundDicomDic["Series Time"])
            THEN Raise(w)
            ELSE SeriesDescription(
                     SetCornerTextIf(fgTimeSet, w, 2, "7-Fg-SeriesTime",
                         "F: " \o formatDICOMTime(foregroundDicomDic["Series Time"])))
        BgSeriesTime(w7) ==
            IF formatDICOMTimeRaises(bgDic["Series Time"]) THEN Raise(w7)
            ELSE FgSeriesTime(
                     SetCornerText(w7, 2, "6-Bg-SeriesTime",
                         (IF timesDiffer THEN "B: " ELSE "")
                             \o formatDICOMTime(bgDic["Series Time"])))
        SeriesDate(w6) ==
            BgSeriesTime(
                SetCornerTextIf(datesDiffer,
                    SetCornerText(w6, 2, "4-Bg-SeriesDate",
                        (IF datesDiffer THEN "B: " ELSE "")
                            \o formatDICOMDate(bgDic["Series Date"])),
                    2, "5-Fg-SeriesDate",
                    "F: " \o formatDICOMDate(foregroundDicomDic["Series Date"])))
        PatientInfo(w4) ==
            SeriesDate(
                SetCornerText(
                    AssignThroughCache(w4, bgUid, "Patient Birth Date",
                                       bgDic["Patient Birth Date"]),
                    2, "3-PatientInfo", makePatientInfo(bgDic)))
    IN PatientInfo(
           SetCornerText(
               SetCornerText(w2, 2, "1-PatientName",
                             ReplaceCaret(backgroundDicomDic["Patient Name"])),
               2, "2-PatientID", "ID: " \o backgroundDicomDic["Patient ID"]))

PatientTextsBoth(w2, bgUid, backgroundDicomDic, foregroundDicomDic) ==
    PatientTexts(w2, bgUid, backgroundDicomDic, foregroundDicomDic,
                 [backgroundDicomDic EXCEPT !["Patient Birth Date"] =
                      formatDICOMDate(backgroundDicomDic["Patient Birth Date"])])

\* lines 525-571: background and foreground are both DICOM volumes
makeDicomAnnotationBoth(w, bgUid, fgUid, viewHeight) ==
    LET TopLeft(w2, backgroundDicomDic, foregroundDicomDic) ==
            IF ~(w2.self.topLeft # 0 /\ viewHeight > 150) THEN w2
            ELSE IF \/ backgroundDicomDic["Patient Name"]
                          # foregroundDicomDic["Patient Name"]
                    \/ backgroundDicomDic["Patient ID"] # foregroundDicomDic["Patient ID"]
                    \/ backgroundDicomDic["Patient Birth Date"]
                          # foregroundDicomDic["Patient Birth Date"]
            THEN ClearCorner(w2, 2)
            ELSE PatientTextsBoth(w2, bgUid, backgroundDicomDic, foregroundDicomDic)
        Foreground(e1, e2) == TopLeft(e2.w, e1.p, e2.p)
        Background(e1) == Foreground(e1, extractDICOMValues(e1.w, fgUid))
    IN Background(extractDICOMValues(w, bgUid))

\* lines 577-584: the top-left corner for a single volume; dic is dicomDic
\* once its birth date is formatted
PatientTextsSingle(w1, uid, dicomDic, dic) ==
    LET SeriesTime(w6) ==
            IF formatDICOMTimeRaises(dic["Series Time"]) THEN Raise(w6)
            ELSE SetCornerText(
                     SetCornerText(w6, 2, "6-Bg-SeriesTime",
                                   formatDICOMTime(dic["Series Time"])),
                     2, "8-Bg-SeriesDescription", dic["Series Description"])
    IN SeriesTime(
           SetCornerText(
               SetCornerText(
                   AssignThroughCache(
                       SetCornerText(
                           SetCornerText(w1, 2, "1-PatientName",
                                         ReplaceCaret(dicomDic["Patient Name"])),
                           2, "2-PatientID", "ID: " \o dicomDic["Patient ID"]),
                       uid, "Patient Birth Date", dic["Patient Birth Date"]),
                   2, "3-PatientInfo", makePatientInfo(dic)),
               2, "4-Bg-SeriesDate", formatDICOMDate(dic["Series Date"])))

\* lines 587-597: the top-right corner for a single volume
AcquisitionTexts(w, dic) ==
    LET Modality(r5) ==
            IF dic["Modality"] = "MR"
            THEN SetCornerText(
                     SetCornerText(r5, 3, "6-TR", "TR " \o dic["Repetition Time"]),
                     3, "7-TE", "TE " \o dic["Echo Time"])
            ELSE r5
    IN Modality(
           SetCornerText(
               SetCornerText(
                   SetCornerText(
                       SetCornerText(
                           SetCornerText(w, 3, "1-Institution-Name",
                                         dic["Institution Name"]),
                           3, "2-Referring-Phisycian",
                           ReplaceCaret(dic["Referring Physician Name"])),
                       3, "3-Manufacturer", dic["Manufacturer"]),
                   3, "4-Model", dic["Model"]),
               3, "5-Patient-Position", dic["Patient Position"]))

\* lines 573-597: only a background or only a foreground DICOM volume
makeDicomAnnotationSingle(w, uid, viewHeight) ==
    LET TopRight(afterTopLeft, dic) ==
            IF afterTopLeft.calls.raised \/ afterTopLeft.self.topRight = 0
            THEN afterTopLeft
            ELSE AcquisitionTexts(afterTopLeft, dic)
        \* the birth date assigned in the top-left block is what the rest reads
        Formatted(w1, dicomDic, dic) ==
            TopRight(PatientTextsSingle(w1, uid, dicomDic, dic), dic)
        TopLeft(w1, dicomDic) ==
            IF w1.self.topLeft # 0 /\ viewHeight > 150
            THEN Formatted(w1, dicomDic,
                           [dicomDic EXCEPT !["Patient Birth Date"] =
                                formatDICOMDate(dicomDic["Patient Birth Date"])])
            ELSE TopRight(w1, dicomDic)
        Extracted(e) == TopLeft(e.w, e.p)
    IN Extracted(extractDICOMValues(w, uid))

makeDicomAnnotationIgnoresDatabase(w, bgUid, fgUid, sliceViewName) ==
    IF w.calls.raised THEN w
    ELSE IF fgUid # NoVolume /\ bgUid # NoVolume
    THEN makeDicomAnnotationBoth(w, bgUid, fgUid, w.host.sliceLogic[sliceViewName].height)
    ELSE makeDicomAnnotationSingle(w, bgUid, w.host.sliceLogic[sliceViewName].height)

\* fgUid is NoVolume where the code passes None
makeDicomAnnotation(w, bgUid, fgUid, sliceViewName) ==
    IF w.calls.raised THEN w
    ELSE IF ~w.host.dicomDatabaseIsOpen THEN w
    ELSE IF fgUid # NoVolume /\ bgUid # NoVolume
    THEN makeDicomAnnotationBoth(w, bgUid, fgUid, w.host.sliceLogic[sliceViewName].height)
    ELSE makeDicomAnnotationSingle(w, bgUid, w.host.sliceLogic[sliceViewName].height)

(***************************************************************************)
(* drawCornerAnnotations and makeAnnotationText                            *)
(***************************************************************************)
\* Displayed with category B shown at every display level
DisplayedShowsB(annotationsDisplayAmount, category) ==
    \/ annotationsDisplayAmount = 0
    \/ annotationsDisplayAmount = 1 /\ category # "C"
    \/ annotationsDisplayAmount = 2 /\ category # "C"

\* whether a line of this category is displayed at this display level
Displayed(annotationsDisplayAmount, category) ==
    \/ annotationsDisplayAmount = 0
    \/ annotationsDisplayAmount = 1 /\ category # "C"
    \/ annotationsDisplayAmount = 2 /\ category = "A"

RECURSIVE CornerLines(_, _, _, _, _)
\* the loop over the sorted keys of one corner, from the k-th key on
CornerLines(texts, i, k, maximumTextLength, annotationsDisplayAmount) ==
    IF k > Len(CornerKeys(i)) THEN ""
    ELSE (IF /\ texts[CornerKeys(i)[k]] # ""
             /\ Displayed(annotationsDisplayAmount, Category(i, CornerKeys(i)[k]))
          THEN fitText(texts[CornerKeys(i)[k]], maximumTextLength) \o "\n"
          ELSE "")
         \o CornerLines(texts, i, k + 1, maximumTextLength, annotationsDisplayAmount)

RECURSIVE SetCornerAnnotations(_, _, _)
\* the loop over the four corners, from corner i on
SetCornerAnnotations(w, sliceViewName, i) ==
    IF i > 3 THEN w
    ELSE SetCornerAnnotations(
             SetText(w, sliceViewName, i,
                     CornerLines(w.self.cornerTexts[i], i, 1, w.self.maximumTextLength,
                                 w.self.annotationsDisplayAmount)),
             sliceViewName, i + 1)

\* drawCornerAnnotations without self.sliceViews[sliceViewName].scheduleRender()
drawCornerAnnotationsNoRender(w, sliceViewName) ==
    IF w.calls.raised THEN w
    ELSE IF w.self.sliceViewAnnotationsEnabled = 0 THEN w
    ELSE SetCornerAnnotations(
             [w EXCEPT !.self.maximumTextLength =
                           PyIntDiv(w.host.sliceLogic[sliceViewName].width - 40,
                                    w.self.fontSize)],
             sliceViewName, 0)

drawCornerAnnotations(w, sliceViewName) ==
    IF w.calls.raised THEN w
    ELSE IF w.self.sliceViewAnnotationsEnabled = 0 THEN w
    ELSE scheduleRender(
             SetCornerAnnotations(
                 [w EXCEPT !.self.maximumTextLength =
                               PyIntDiv(w.host.sliceLogic[sliceViewName].width - 40,
                                        w.self.fontSize)],
                 sliceViewName, 0),
             sliceViewName)

\* lines 445-487 after the layer names: the DICOM annotation of uid (and of
\* fgUid), with self.dicomVolumeNode = 1 before the call (Case I) or after it
DicomTexts(w1, sliceViewName, uid, fgUid, caseI) ==
    LET After(w2) ==
            IF w2.calls.raised THEN w2 ELSE [w2 EXCEPT !.self.dicomVolumeNode = 1]
    IN After(makeDicomAnnotation(
                 [w1 EXCEPT !.self.dicomVolumeNode = IF caseI THEN 1 ELSE @],
                 uid, fgUid, sliceViewName))

\* lines 434-487: the layer names and the DICOM annotations
LayerTexts(w, sliceViewName) ==
    LET sl == w.host.sliceLogic[sliceViewName]
        backgroundVolume == sl.background
        foregroundVolume == sl.foreground
        caseI == backgroundVolume # NoVolume /\ foregroundVolume # NoVolume
        bottomLeft == w.self.bottomLeft # 0
        bgUids == VolumeNodes[backgroundVolume].instanceUIDs
        fgUids == VolumeNodes[foregroundVolume].instanceUIDs
        \* the uids whose first one is passed as bgUid: "passed UID as bg"
        uids == IF backgroundVolume # NoVolume THEN bgUids ELSE fgUids
        \* Case I annotates both volumes, or the background alone if that persists
        annotated ==
            IF caseI
            THEN bgUids # "" /\ (fgUids # "" \/ w.self.backgroundDICOMAnnotationsPersistence # 0)
            ELSE uids # ""
        Dicom(w1) ==
            IF annotated
            THEN DicomTexts(w1, sliceViewName, PartitionHead(uids),
                            IF caseI /\ fgUids # "" THEN PartitionHead(fgUids) ELSE NoVolume,
                            caseI)
            ELSE IF caseI
            THEN [ClearCorner(w1, 2) EXCEPT !.self.dicomVolumeNode = 0]
            ELSE [w1 EXCEPT !.self.dicomVolumeNode = 0]
    IN IF backgroundVolume = NoVolume /\ foregroundVolume = NoVolume THEN w
       ELSE Dicom(
                SetCornerTextIf(bottomLeft /\ foregroundVolume # NoVolume,
                    SetCornerTextIf(bottomLeft /\ backgroundVolume # NoVolume,
                        w, 0, "3-Background",
                        "B: " \o VolumeNodes[backgroundVolume].name),
                    0, "2-Foreground",
                    "F: " \o VolumeNodes[foregroundVolume].name
                        \o (IF caseI
                            THEN " (" \o IntToStr(OpacityPercent(sl.foregroundOpacity))
                                     \o "%)"
                            ELSE "")))

\* SlabTexts with self.allowForcingTopRightVisibility left True
SlabTextsKeepsForcing(w, sliceViewName) ==
    LET sl == w.host.sliceLogic[sliceViewName]
        Fill(w1) ==
            IF w1.self.topRight # 0 /\ sl.slabReconstructionEnabled
            THEN SetCornerText(
                     SetCornerText(w1, 3, "8-SlabReconstructionThickness",
                         "Thickness: " \o sl.slabReconstructionThickness \o " "
                             \o lengthSuffix),
                     3, "9-SlabReconstructionType", "Type: " \o sl.slabReconstructionType)
            ELSE SetCornerText(SetCornerText(w1, 3, "8-SlabReconstructionThickness", ""),
                               3, "9-SlabReconstructionType", "")
    IN IF w.calls.raised THEN w
       ELSE IF sl.slabReconstructionEnabled /\ w.self.allowForcingTopRightVisibility
       THEN Fill([w EXCEPT !.self.topRight = 1, !.gui.topRightCheckBox = TRUE])
       ELSE Fill(w)

\* lines 489-510: slab reconstruction forces and fills the top-right corner
SlabTexts(w, sliceViewName) ==
    LET sl == w.host.sliceLogic[sliceViewName]
        Fill(w1) ==
            IF w1.self.topRight # 0 /\ sl.slabReconstructionEnabled
            THEN SetCornerText(
                     SetCornerText(w1, 3, "8-SlabReconstructionThickness",
                         "Thickness: " \o sl.slabReconstructionThickness \o " "
                             \o lengthSuffix),
                     3, "9-SlabReconstructionType", "Type: " \o sl.slabReconstructionType)
            ELSE SetCornerText(SetCornerText(w1, 3, "8-SlabReconstructionThickness", ""),
                               3, "9-SlabReconstructionType", "")
    IN IF w.calls.raised THEN w
       ELSE IF sl.slabReconstructionEnabled /\ w.self.allowForcingTopRightVisibility
       THEN Fill([w EXCEPT !.self.topRight = 1,
                           !.gui.topRightCheckBox = TRUE,
                           !.self.allowForcingTopRightVisibility = FALSE])
       ELSE Fill(w)

\* lines 512-516
LabelText(w, sliceViewName) ==
    IF w.calls.raised THEN w
    ELSE SetCornerTextIf(
             w.host.sliceLogic[sliceViewName].label # NoVolume /\ w.self.bottomLeft # 0,
             w, 0, "1-Label",
             "L: " \o VolumeNodes[w.host.sliceLogic[sliceViewName].label].name \o " ("
                 \o IntToStr(OpacityPercent(w.host.sliceLogic[sliceViewName].labelOpacity))
                 \o "%)")

\* sliceViewName names the view whose slice logic is the argument
makeAnnotationText(w, sliceViewName) ==
    IF w.calls.raised THEN w
    ELSE IF ~w.host.sliceLogic[sliceViewName].compositeNode THEN resetTexts(w)
    ELSE IF ~w.host.sliceLogic[sliceViewName].sliceNode THEN resetTexts(w)
    ELSE IF sliceViewName \notin w.self.sliceViews THEN Raise(resetTexts(w))
    ELSE drawCornerAnnotations(
             LabelText(SlabTexts(LayerTexts(resetTexts(w), sliceViewName), sliceViewName),
                       sliceViewName),
             sliceViewName)

(***************************************************************************)
(* Observers (VTKObservationMixin) and the refresh of the slice views.     *)
(* An observation is the pair of the observed object (a view's slice       *)
(* logic, named by the view, or the parameter node) and the method.        *)
(***************************************************************************)
ParameterNodeObject == "parameterNode"

\* self.addObserver(object, vtk.vtkCommand.ModifiedEvent, method)
addObserver(w, object, method) ==
    [w EXCEPT !.self.observations = @ \cup {<<object, method>>}]

\* self.removeObservers(method=method)
removeObservers(w, method) ==
    [w EXCEPT !.self.observations = {o \in @ : o[2] # method}]

\* the layout manager has a slice widget of that name
HasSliceWidget(w, sliceViewName) ==
    \E k \in 1..Len(w.host.layout) : w.host.layout[k] = sliceViewName

updateEnabledButtons(w) ==
    [w EXCEPT !.gui.groupsEnabled = (w.self.sliceViewAnnotationsEnabled # 0)]

createGlobalVariables(w) ==
    [w EXCEPT !.self.sliceViewNames = <<>>, !.self.sliceViews = {}]

addSliceViewObserver(w, sliceViewName) ==
    IF w.calls.raised THEN w
    ELSE IF ~HasSliceWidget(w, sliceViewName) THEN Raise(w)
    ELSE addObserver([w EXCEPT !.self.sliceViews = @ \cup {sliceViewName}],
                     sliceViewName, "updateViewAnnotations")

\* only records the slice widget, which the model reads from the layout
createActors(w, sliceViewName) == w

RECURSIVE ObserveEach(_, _)
\* for sliceViewName in self.sliceViewNames: observe it and create its actors
ObserveEach(w, names) ==
    IF names = <<>> THEN w
    ELSE ObserveEach(createActors(addSliceViewObserver(w, Head(names)), Head(names)),
                     Tail(names))

createCornerAnnotations(w) ==
    ObserveEach([createGlobalVariables(w) EXCEPT !.self.sliceViewNames = w.host.layout],
                w.host.layout)

\* sliceViewAnnotationsEnabled is off: the four corners are set to ""
SetTextsEmpty(w, sliceViewName) ==
    SetText(SetText(SetText(SetText(w, sliceViewName, 0, ""),
                            sliceViewName, 1, ""),
                    sliceViewName, 2, ""),
            sliceViewName, 3, "")

updateCornerAnnotation(w, sliceViewName) ==
    LET Render(w1) == IF w1.calls.raised THEN w1 ELSE scheduleRender(w1, sliceViewName)
    IN IF w.calls.raised THEN w
       ELSE IF ~w.host.sliceLogic[sliceViewName].sliceNode THEN Raise(w)
       ELSE IF sliceViewName \notin w.self.sliceViews THEN Raise(w)
       ELSE IF w.self.sliceViewAnnotationsEnabled # 0
       THEN Render(makeAnnotationText(w, sliceViewName))
       ELSE Render(SetTextsEmpty(w, sliceViewName))

RECURSIVE UpdateEach(_, _)
\* for sliceViewName in self.sliceViewNames: update the view if it has a widget
UpdateEach(w, names) ==
    IF names = <<>> THEN w
    ELSE UpdateEach(IF HasSliceWidget(w, Head(names))
                    THEN updateCornerAnnotation(w, Head(names))
                    ELSE w,
                    Tail(names))

\* for sliceViewName in self.sliceViewNames: ...
UpdateSliceViews(w1) == UpdateEach(w1, w1.self.sliceViewNames)

updateSliceViewFromGUI(w) ==
    IF w.calls.raised THEN w
    ELSE IF w.self.sliceViewAnnotationsEnabled = 0
    THEN removeObservers(removeObservers(w, "updateViewAnnotations"), "updateGUIFromMRML")
    ELSE UpdateSliceViews(IF Len(w.self.sliceViewNames) = 0
                          THEN createCornerAnnotations(w)
                          ELSE w)

\* sliceViewName is not in self.sliceViewNames: lines 369-374
DiscoverSliceView(w, sliceViewName) ==
    updateSliceViewFromGUI(
        createActors(
            addSliceViewObserver(
                [w EXCEPT !.self.sliceViewNames = Append(@, sliceViewName),
                          !.calls.discovered = @ + 1],
                sliceViewName),
            sliceViewName))

RECURSIVE DiscoverEach(_, _)
\* the loop of updateViewAnnotations over layoutManager.sliceViewNames()
DiscoverEach(w, names) ==
    IF names = <<>> \/ w.calls.raised THEN w
    ELSE DiscoverEach(
             IF \E k \in 1..Len(w.self.sliceViewNames) :
                    w.self.sliceViewNames[k] = Head(names)
             THEN w
             ELSE DiscoverSliceView(w, Head(names)),
             Tail(names))

\* caller: the view whose slice logic sent the Modified event
updateViewAnnotations(w, caller) ==
    IF w.self.sliceViewAnnotationsEnabled = 0 THEN w
    ELSE makeAnnotationText(DiscoverEach(w, w.host.layout), caller)

(***************************************************************************)
(* The handlers of the settings window.                                    *)
(***************************************************************************)
\* the check box has just been clicked: its state is already the new one
onSliceViewAnnotationsCheckBox(w) ==
    updateSliceViewFromGUI(
        updateEnabledButtons(
            setValue([w EXCEPT !.self.sliceViewAnnotationsEnabled =
                                   BoolToInt(w.gui.sliceViewAnnotationsCheckBox)],
                     "enabled", BoolToInt(w.gui.sliceViewAnnotationsCheckBox))))

onCornerTextsActivationCheckBox(w) ==
    LET Save(w2) ==
            IF w2.calls.raised THEN w2
            ELSE setValue(setValue(setValue(w2, "topLeft", w2.self.topLeft),
                                   "topRight", w2.self.topRight),
                          "bottomLeft", w2.self.bottomLeft)
    IN Save(updateSliceViewFromGUI(
                [w EXCEPT !.self.topLeft = BoolToInt(w.gui.topLeftCheckBox),
                          !.self.topRight = BoolToInt(w.gui.topRightCheckBox),
                          !.self.bottomLeft = BoolToInt(w.gui.bottomLeftCheckBox)]))

\* parameter: self.parameterNode.GetParameter("sliceViewAnnotationsEnabled")
updateGUIFromMRML(w) ==
    IF w.host.parameterNode = "" THEN w
    ELSE updateSliceViewFromGUI(
             [w EXCEPT !.self.sliceViewAnnotationsEnabled =
                           DigitsToInt(w.host.parameterNode)])

\* levelRadioButton: which of level1/2/3RadioButton is the checked one (0..2)
onDisplayDisplayLevelRadioButton(w) ==
    updateSliceViewFromGUI(
        setValue([w EXCEPT !.self.annotationsDisplayAmount = w.gui.levelRadioButton],
                 "displayLevel", w.gui.levelRadioButton))

onBackgroundLayerPersistenceCheckBox(w) ==
    updateSliceViewFromGUI(
        setValue([w EXCEPT !.self.backgroundDICOMAnnotationsPersistence =
                               BoolToInt(w.gui.backgroundPersistenceCheckBox)],
                 "bgDICOMAnnotationsPersistence",
                 BoolToInt(w.gui.backgroundPersistenceCheckBox)))

onFontFamilyRadioButton(w) ==
    LET Family(fontFamily) ==
            updateSliceViewFromGUI(
                setValue([w EXCEPT !.self.fontFamily = fontFamily],
                         "fontFamily", fontFamily))
    IN Family(IF w.gui.timesFontRadioButton THEN "Times" ELSE "Arial")

onFontSizeSpinBox(w) ==
    updateSliceViewFromGUI(
        setValue([w EXCEPT !.self.fontSize = w.gui.fontSizeSpinBox],
                 "fontSize", w.gui.fontSizeSpinBox))

\* self.fontSizeSpinBox.value = value: if that changes the value, the spin box
\* emits valueChanged(int) and its slot onFontSizeSpinBox runs before the
\* assignment returns; an exception of the slot is reported by the signal
\* dispatch and does not reach the statement that made the assignment
SetFontSizeSpinBox(w, value) ==
    LET Returned(slot) == [slot EXCEPT !.calls.raised = w.calls.raised]
    IN IF w.gui.fontSizeSpinBox = value THEN w
       ELSE Returned(onFontSizeSpinBox([w EXCEPT !.gui.fontSizeSpinBox = value]))

\* lines 287-295: the seven preferences restoreDefaultValues writes
SaveRestored(w) ==
    setValue(
        setValue(
            setValue(
                setValue(
                    setValue(
                        setValue(
                            setValue(w, "enabled", w.self.sliceViewAnnotationsEnabled),
                            "topLeft", w.self.topLeft),
                        "topRight", w.self.topRight),
                    "bottomLeft", w.self.bottomLeft),
                "fontFamily", w.self.fontFamily),
            "fontSize", w.self.fontSize),
        "bgDICOMAnnotationsPersistence", w.self.backgroundDICOMAnnotationsPersistence)

restoreDefaultValues(w) ==
    LET \* lines 281-297
        Rest(w2) ==
            updateSliceViewFromGUI(
                SaveRestored(
                    [w2 EXCEPT
                        !.gui.timesFontRadioButton = (DEFAULTS.fontFamily = "Times"),
                        !.self.fontFamily = DEFAULTS.fontFamily,
                        !.self.backgroundDICOMAnnotationsPersistence =
                            DEFAULTS.bgDICOMAnnotationsPersistence,
                        !.gui.backgroundPersistenceCheckBox =
                            (DEFAULTS.bgDICOMAnnotationsPersistence # 0)]))
        \* line 280
        SpinBox(w1) == Rest(SetFontSizeSpinBox(w1, DEFAULTS.fontSize))
    IN \* lines 263-278
       SpinBox(
           [updateEnabledButtons(
                [w EXCEPT !.gui.sliceViewAnnotationsCheckBox = (DEFAULTS.enabled # 0),
                          !.self.sliceViewAnnotationsEnabled = DEFAULTS.enabled])
            EXCEPT !.gui.levelRadioButton = DEFAULTS.displayLevel,
                   !.self.annotationsDisplayAmount = DEFAULTS.displayLevel,
                   !.gui.topLeftCheckBox = (DEFAULTS.topLeft # 0),
                   !.self.topLeft = DEFAULTS.topLeft,
                   !.gui.topRightCheckBox = (DEFAULTS.topRight # 0),
                   !.self.topRight = DEFAULTS.topRight,
                   !.gui.bottomLeftCheckBox = (DEFAULTS.bottomLeft # 0),
                   !.self.bottomLeft = DEFAULTS.bottomLeft])

(***************************************************************************)
(* Construction, and the actions: one per event the host delivers.         *)
(***************************************************************************)
\* the attributes and widgets __init__ and create set from the settings store
Attributes(store, host) ==
    [self |->
       [sliceViewAnnotationsEnabled |-> settingsValue(store, "enabled"),
        annotationsDisplayAmount |-> settingsValue(store, "displayLevel"),
        topLeft |-> settingsValue(store, "topLeft"),
        topRight |-> settingsValue(store, "topRight"),
        bottomLeft |-> settingsValue(store, "bottomLeft"),
        fontFamily |-> settingsValue(store, "fontFamily"),
        fontSize |-> settingsValue(store, "fontSize"),
        backgroundDICOMAnnotationsPersistence |->
            settingsValue(store, "bgDICOMAnnotationsPersistence"),
        allowForcingTopRightVisibility |-> TRUE,
        maximumTextLength |-> 35,
        dicomVolumeNode |-> 0,
        sliceViewNames |-> <<>>,
        sliceViews |-> {},
        cornerTexts |-> EmptyCornerTexts,
        extractedDICOMValuesCache |-> <<>>,
        observations |-> {<<ParameterNodeObject, "updateGUIFromMRML">>}],
     gui |->
       [sliceViewAnnotationsCheckBox |-> (settingsValue(store, "enabled") # 0),
        topLeftCheckBox |-> (settingsValue(store, "topLeft") # 0),
        topRightCheckBox |-> (settingsValue(store, "topRight") # 0),
        bottomLeftCheckBox |-> (settingsValue(store, "bottomLeft") # 0),
        levelRadioButton |-> settingsValue(store, "displayLevel"),
        timesFontRadioButton |-> (settingsValue(store, "fontFamily") = "Times"),
        fontSizeSpinBox |-> settingsValue(store, "fontSize"),
        backgroundPersistenceCheckBox |->
            (settingsValue(store, "bgDICOMAnnotationsPersistence") # 0),
        groupsEnabled |-> (settingsValue(store, "enabled") # 0)],
     settings |-> store,
     cornerAnnotation |-> [v \in Views |-> NoText],
     host |-> host,
     calls |-> NoAnnotationCalls]

\* SliceAnnotations.__init__ with the settings store and the host as given
Constructed(store, host) ==
    IF settingsValue(store, "enabled") # 0
    THEN updateSliceViewFromGUI(Attributes(store, host))
    ELSE Attributes(store, host)

\* the variables of SliceAnnotations and of its host take the values of w
Holds(w0) ==
    \E w \in {w0} :
    /\ self = w.self
    /\ gui = w.gui
    /\ settings = w.settings
    /\ cornerAnnotation = w.cornerAnnotation
    /\ calls = w.calls
    /\ layout = w.host.layout
    /\ sliceLogic = w.host.sliceLogic
    /\ dicomDatabaseIsOpen = w.host.dicomDatabaseIsOpen
    /\ parameterNode = w.host.parameterNode

\* the handler has run to its end and left w: the annotations and the host
Commit(w0) ==
    \E w \in {w0} :
    /\ self' = w.self
    /\ gui' = w.gui
    /\ settings' = w.settings
    /\ cornerAnnotation' = w.cornerAnnotation
    /\ calls' = w.calls
    /\ layout' = w.host.layout
    /\ sliceLogic' = w.host.sliceLogic
    /\ dicomDatabaseIsOpen' = w.host.dicomDatabaseIsOpen
    /\ parameterNode' = w.host.parameterNode

Observed(object, method) == <<object, method>> \in self.observations

\* the user clicks the "Slice View Annotations" check box
ClickSliceViewAnnotationsCheckBox ==
    /\ lastOp' = "onSliceViewAnnotationsCheckBox"
    /\ Commit(onSliceViewAnnotationsCheckBox(
                  [World EXCEPT !.gui.sliceViewAnnotationsCheckBox = ~@]))
    /\ UNCHANGED <<installVars, cacheCall, fitCall>>

\* the user clicks one of the three corner check boxes
ClickCornerTextsActivationCheckBox(box) ==
    /\ gui.groupsEnabled
    /\ lastOp' = "onCornerTextsActivationCheckBox"
    /\ Commit(onCornerTextsActivationCheckBox([World EXCEPT !.gui[box] = ~@]))
    /\ UNCHANGED <<installVars, cacheCall, fitCall>>

\* the slice logic of a view of the layout is modified (edited: its state
\* after the change) and sends its Modified event to its observers
SliceLogicModified(v, edited) ==
    /\ HasSliceWidget(World, v)
    /\ lastOp' = IF Observed(v, "updateViewAnnotations") THEN "updateViewAnnotations"
                 ELSE "unobserved"
    /\ Commit([(IF Observed(v, "updateViewAnnotations")
                THEN updateViewAnnotations([World EXCEPT !.host.sliceLogic[v] = edited], v)
                ELSE [World EXCEPT !.host.sliceLogic[v] = edited])
               EXCEPT !.calls.caller = v])
    /\ UNCHANGED <<installVars, cacheCall, fitCall>>

\* the layout gets one more slice view
HostAddSliceView ==
    /\ Len(layout) < Len(AllViews)
    /\ lastOp' = "host"
    /\ Commit([World EXCEPT !.host.layout = Append(@, AllViews[Len(layout) + 1])])
    /\ UNCHANGED <<installVars, cacheCall, fitCall>>

\* the DICOM database is opened or closed
HostSetDicomDatabase ==
    /\ lastOp' = "host"
    /\ Commit([World EXCEPT !.host.dicomDatabaseIsOpen = ~@])
    /\ UNCHANGED <<installVars, cacheCall, fitCall>>

\* the parameter node is modified, with the parameter left at value
ParameterNodeModified(value) ==
    /\ lastOp' = IF Observed(ParameterNodeObject, "updateGUIFromMRML")
                 THEN "updateGUIFromMRML" ELSE "unobserved"
    /\ Commit(IF Observed(ParameterNodeObject, "updateGUIFromMRML")
              THEN updateGUIFromMRML([World EXCEPT !.host.parameterNode = value])
              ELSE [World EXCEPT !.host.parameterNode = value])
    /\ UNCHANGED <<installVars, cacheCall, fitCall>>

\* the host before any view shows a volume
InitialHost(views, isOpen) ==
    [layout |-> views,
     sliceLogic |-> [v \in Views |-> EmptySliceLogic],
     dicomDatabaseIsOpen |-> isOpen,
     parameterNode |-> ""]

\* the two modules and the stand-alone calls each start at rest
InstallAtRest ==
    /\ emmInstalled = FALSE
    /\ emmInteractive = TRUE
    /\ textBox = helpText
    /\ applyButtonEnabled = TRUE
    /\ applyCalls = [log |-> <<>>, installResult |-> "none"]
    /\ widgetInstallCalls = 0
    /\ widgetInstallFailed = FALSE
    /\ applyCount = 0

\* no stand-alone call of extractDICOMValues or of fitText has been made
NoCacheCall ==
    [made |-> FALSE, uid |-> "None", hit |-> FALSE, wasFull |-> FALSE,
     evicted |-> {}, leastRecent |-> "None", uses |-> <<>>, fresh |-> 1, hits |-> 0]

NoFitCall == [made |-> FALSE, text |-> "", viewWidth |-> 0, fontSize |-> 0,
              textSize |-> 0, result |-> ""]

AnnotationsAtRest == Holds(Constructed(<<>>, InitialHost(<<>>, FALSE)))

(***************************************************************************)
(* Spec: the annotations follow the views.  The settings store is empty or *)
(* has annotations disabled; views are added, their layers, nodes and size *)
(* change, the DICOM database opens and closes, the user toggles the       *)
(* annotations and the corners, and the parameter node is modified.        *)
(***************************************************************************)
\* the states a slice logic is put in
SliceLogicEdits ==
    {[EmptySliceLogic EXCEPT !.compositeNode = c, !.sliceNode = sn, !.background = bg] :
        c \in BOOLEAN, sn \in BOOLEAN, bg \in {NoVolume, "MR1"}}

Init ==
    /\ \E store \in {<<>>, [enabled |-> 0]}, n \in 0..1 :
          Holds(Constructed(store, InitialHost(SubSeq(AllViews, 1, n), TRUE)))
    /\ InstallAtRest
    /\ cacheCall = NoCacheCall
    /\ fitCall = NoFitCall
    /\ lastOp = "__init__"

Next ==
    \/ ClickSliceViewAnnotationsCheckBox
    \/ \E v \in Views, edited \in SliceLogicEdits : SliceLogicModified(v, edited)
    \/ HostAddSliceView
    \/ \E value \in {"", "0", "1"} : ParameterNodeModified(value)

Spec == Init /\ [][Next]_vars

(***************************************************************************)
(* SpecInstall: the installer widget is set up, clicked, and the host      *)
(* changes the extension's state behind it.                                *)
(***************************************************************************)
InitInstall ==
    /\ emmInstalled \in BOOLEAN
    /\ emmInteractive = TRUE
    /\ textBox = helpText
    /\ applyButtonEnabled = TRUE
    /\ applyCalls = NoCalls
    /\ widgetInstallCalls = 0
    /\ widgetInstallFailed = FALSE
    /\ applyCount = 0
    /\ AnnotationsAtRest
    /\ cacheCall = NoCacheCall
    /\ fitCall = NoFitCall
    /\ lastOp = "setup"

NextInstall == setup \/ ClickApply \/ HostSetInstalled \/ HostSetInteractive

SpecInstall == InitInstall /\ [][NextInstall]_vars

(***************************************************************************)
(* SpecCache: extractDICOMValues is called again and again.  A uid asked   *)
(* for is either a key of the cache or new; new uids are taken in turn     *)
(* from MaxUid names, which the cache cannot tell apart.  cacheCall keeps, *)
(* beside the call, the keys of the cache from the least to the most       *)
(* recently used (looked up or inserted).                                  *)
(***************************************************************************)
\* the n-th instance uid; the database knows the first four
Uid(n) == NatToStr(n) \o ".1"

\* the use order after uid is used and only the keys of cache are left
Used(uses, uid, cache) ==
    LET Others(u) == u # uid /\ u \in CacheUids(cache)
    IN SelectSeq(uses, Others) \o (IF uid \in CacheUids(cache) THEN <<uid>> ELSE <<>>)

\* self.extractDICOMValues(uid), its result dropped
CallExtractDICOMValues(uid) ==
    /\ lastOp' = "extractDICOMValues"
    /\ Commit(extractDICOMValues(World, uid).w)
    /\ cacheCall' =
          [made |-> TRUE,
           uid |-> uid,
           hit |-> uid \in CacheUids(self.extractedDICOMValuesCache),
           wasFull |-> Len(self.extractedDICOMValuesCache) = extractedDICOMValuesCacheSize,
           evicted |-> CacheUids(self.extractedDICOMValuesCache)
                           \ CacheUids(self'.extractedDICOMValuesCache),
           leastRecent |-> IF cacheCall.uses = <<>> THEN "None" ELSE Head(cacheCall.uses),
           uses |-> Used(cacheCall.uses, uid, self'.extractedDICOMValuesCache),
           fresh |-> IF uid \in CacheUids(self.extractedDICOMValuesCache)
                     THEN cacheCall.fresh
                     ELSE (cacheCall.fresh % MaxUid) + 1,
           hits |-> IF uid \in CacheUids(self.extractedDICOMValuesCache)
                    THEN cacheCall.hits + 1
                    ELSE cacheCall.hits]
    /\ UNCHANGED <<installVars, fitCall>>

\* a uid that is a key of the cache is asked for
ExtractCached ==
    /\ cacheCall.hits < MaxHits
    /\ \E uid \in CacheUids(self.extractedDICOMValuesCache) : CallExtractDICOMValues(uid)

\* the next new uid is asked for
ExtractNew ==
    /\ Uid(cacheCall.fresh) \notin CacheUids(self.extractedDICOMValuesCache)
    /\ CallExtractDICOMValues(Uid(cacheCall.fresh))

InitCache ==
    /\ AnnotationsAtRest
    /\ InstallAtRest
    /\ cacheCall = NoCacheCall
    /\ fitCall = NoFitCall
    /\ lastOp = "__init__"

NextCache == ExtractCached \/ ExtractNew

SpecCache == InitCache /\ [][NextCache]_vars

(***************************************************************************)
(* SpecFit: fitText is called as drawCornerAnnotations calls it, on a text *)
(* that is not empty and with the text size computed from the width of the *)
(* view and the font size.                                                 *)
(***************************************************************************)
\* the texts of one to MaxTextLen characters
FitTexts == {SubSeq("abcdefghijklmnopqrstuvwxyz", 1, n) : n \in 1..MaxTextLen}

\* the default font size and a smaller one
FontSizes == {DEFAULTS.fontSize, DEFAULTS.fontSize - 4}

\* lines 646-647 and 654: the text size of the view, and fitText on the text
CallFitText ==
    /\ ~fitCall.made
    /\ lastOp' = "fitText"
    /\ fitCall' = [fitCall EXCEPT
                      !.made = TRUE,
                      !.textSize = PyIntDiv(fitCall.viewWidth - 40, fitCall.fontSize),
                      !.result = fitText(fitCall.text,
                                         PyIntDiv(fitCall.viewWidth - 40, fitCall.fontSize))]
    /\ UNCHANGED <<installVars, annotationVars, hostVars, cacheCall>>

\* the text of a corner, the width of the view and the font size are any
InitFit ==
    /\ AnnotationsAtRest
    /\ InstallAtRest
    /\ cacheCall = NoCacheCall
    /\ \E text \in FitTexts, viewWidth \in 0..MaxViewWidth, fontSize \in FontSizes :
          fitCall = [NoFitCall EXCEPT !.text = text, !.viewWidth = viewWidth,
                                      !.fontSize = fontSize]
    /\ lastOp = "__init__"

NextFit == CallFitText

SpecFit == InitFit /\ [][NextFit]_vars

(***************************************************************************)
(* SpecDicom: one slice view shows DICOM and other volumes.  Its layers    *)
(* change, the DICOM database opens and closes, and the user toggles the   *)
(* top-left and top-right corners.                                         *)
(***************************************************************************)
\* the layers a slice logic is given
DicomEdits ==
    {[EmptySliceLogic EXCEPT !.background = bg, !.foreground = fg, !.label = lb] :
        bg \in {NoVolume, "MR1", "CT"}, fg \in {NoVolume, "MR2"}, lb \in {NoVolume, "Seg"}}

\* no birth date held by the cache is longer than MaxBirthDateLen characters
BirthDatesBounded ==
    \A k \in 1..Len(self.extractedDICOMValuesCache) :
        Len(self.extractedDICOMValuesCache[k].values["Patient Birth Date"])
            <= MaxBirthDateLen

\* the slice logic of the view gets new layers and sends Modified
LayersModified(v, edited) ==
    /\ BirthDatesBounded
    /\ SliceLogicModified(v, edited)

\* the user clicks the top-left or the top-right check box
CornerClicked(box) ==
    /\ BirthDatesBounded
    /\ ClickCornerTextsActivationCheckBox(box)

InitDicom ==
    /\ \E isOpen \in BOOLEAN :
          Holds(Constructed(<<>>, InitialHost(<<"Red">>, isOpen)))
    /\ InstallAtRest
    /\ cacheCall = NoCacheCall
    /\ fitCall = NoFitCall
    /\ lastOp = "__init__"

NextDicom ==
    \/ \E edited \in DicomEdits : LayersModified("Red", edited)
    \/ \E box \in {"topLeftCheckBox", "topRightCheckBox"} : CornerClicked(box)
    \/ HostSetDicomDatabase

SpecDicom == InitDicom /\ [][NextDicom]_vars

(***************************************************************************)
(* SpecPrefs: the settings window.  With one slice view that shows no      *)
(* volume, the user changes every preference and restores the defaults.    *)
(***************************************************************************)
\* the values the font size spin box is set to
SpinBoxValues == {DEFAULTS.fontSize, DEFAULTS.fontSize - 4}

\* the user clicks the enabled check box
EnabledClicked ==
    /\ BirthDatesBounded
    /\ ClickSliceViewAnnotationsCheckBox

\* the user clicks one of the three display level radio buttons
ClickDisplayLevelRadioButton(level) ==
    /\ BirthDatesBounded
    /\ gui.groupsEnabled
    /\ lastOp' = "onDisplayDisplayLevelRadioButton"
    /\ Commit(onDisplayDisplayLevelRadioButton(
                  [World EXCEPT !.gui.levelRadioButton = level]))
    /\ UNCHANGED <<installVars, cacheCall, fitCall>>

\* the user clicks the background persistence check box
ClickBackgroundPersistenceCheckBox ==
    /\ BirthDatesBounded
    /\ gui.groupsEnabled
    /\ lastOp' = "onBackgroundLayerPersistenceCheckBox"
    /\ Commit(onBackgroundLayerPersistenceCheckBox(
                  [World EXCEPT !.gui.backgroundPersistenceCheckBox = ~@]))
    /\ UNCHANGED <<installVars, cacheCall, fitCall>>

\* the user clicks the Times or the Arial radio button
ClickFontFamilyRadioButton(times) ==
    /\ BirthDatesBounded
    /\ gui.groupsEnabled
    /\ lastOp' = "onFontFamilyRadioButton"
    /\ Commit(onFontFamilyRadioButton([World EXCEPT !.gui.timesFontRadioButton = times]))
    /\ UNCHANGED <<installVars, cacheCall, fitCall>>

\* the user changes the value of the font size spin box
ChangeFontSizeSpinBox(value) ==
    /\ BirthDatesBounded
    /\ gui.groupsEnabled
    /\ gui.fontSizeSpinBox # value
    /\ lastOp' = "onFontSizeSpinBox"
    /\ Commit(SetFontSizeSpinBox(World, value))
    /\ UNCHANGED <<installVars, cacheCall, fitCall>>

\* the user clicks "Restore Defaults"
ClickRestoreDefaultsButton ==
    /\ BirthDatesBounded
    /\ lastOp' = "restoreDefaultValues"
    /\ Commit(restoreDefaultValues(World))
    /\ UNCHANGED <<installVars, cacheCall, fitCall>>

InitPrefs ==
    /\ Holds(Constructed(<<>>, InitialHost(<<"Red">>, TRUE)))
    /\ InstallAtRest
    /\ cacheCall = NoCacheCall
    /\ fitCall = NoFitCall
    /\ lastOp = "__init__"

NextPrefs ==
    \/ EnabledClicked
    \/ \E level \in 0..2 : ClickDisplayLevelRadioButton(level)
    \/ ClickBackgroundPersistenceCheckBox
    \/ \E box \in {"topLeftCheckBox", "topRightCheckBox", "bottomLeftCheckBox"} :
          CornerClicked(box)
    \/ \E times \in BOOLEAN : ClickFontFamilyRadioButton(times)
    \/ \E value \in SpinBoxValues : ChangeFontSizeSpinBox(value)
    \/ ClickRestoreDefaultsButton

SpecPrefs == InitPrefs /\ [][NextPrefs]_vars

(***************************************************************************)
(* SpecLevels: the display level and the corners.  One slice view shows a  *)
(* DICOM volume or none, with slab reconstruction on or off, while the     *)
(* user picks the display level and the corners and restores the defaults. *)
(***************************************************************************)
LevelsEdits ==
    {[EmptySliceLogic EXCEPT !.background = bg, !.slabReconstructionEnabled = slab] :
        bg \in {NoVolume, "MR1"}, slab \in BOOLEAN}

InitLevels ==
    /\ Holds(Constructed(<<>>, InitialHost(<<"Red">>, TRUE)))
    /\ InstallAtRest
    /\ cacheCall = NoCacheCall
    /\ fitCall = NoFitCall
    /\ lastOp = "__init__"

NextLevels ==
    \/ \E level \in 0..2 : ClickDisplayLevelRadioButton(level)
    \/ \E box \in {"topLeftCheckBox", "topRightCheckBox", "bottomLeftCheckBox"} :
          CornerClicked(box)
    \/ ClickRestoreDefaultsButton
    \/ \E edited \in LevelsEdits : LayersModified("Red", edited)

SpecLevels == InitLevels /\ [][NextLevels]_vars

(***************************************************************************)
(* SpecPatients: background and foreground volumes of one patient or of    *)
(* two.  One slice view, high or low, gets DICOM volumes as its background *)
(* and foreground while the user toggles the top-left corner; the database *)
(* is open.                                                                *)
(***************************************************************************)
\* view heights on both sides of the 150 pixels the top-left corner needs
ViewHeights == {EmptySliceLogic.height, 100}

PatientsEdits ==
    {[EmptySliceLogic EXCEPT !.background = bg, !.foreground = fg, !.height = h] :
        bg \in {NoVolume, "MR1", "CT"}, fg \in {NoVolume, "MR3"}, h \in ViewHeights}

InitPatients ==
    /\ Holds(Constructed(<<>>, InitialHost(<<"Red">>, TRUE)))
    /\ InstallAtRest
    /\ cacheCall = NoCacheCall
    /\ fitCall = NoFitCall
    /\ lastOp = "__init__"

NextPatients ==
    \/ \E edited \in PatientsEdits : LayersModified("Red", edited)
    \/ CornerClicked("topLeftCheckBox")

SpecPatients == InitPatients /\ [][NextPatients]_vars

(***************************************************************************)
(* Claims about DMRIInstall, checked under SpecInstall.                    *)
(***************************************************************************)
\* the step is one onApply invocation
IsApplyStep == applyCount' = applyCount + 1

\* C6: onApply with the extension already installed asks nothing of the
\* package manager (no metadata refresh, no install, no restart prompt, the
\* interactive flag and the installed state as they were); it shows the
\* "already installed" message and disables the install button.
C6_AlreadyInstalledNoOp ==
    [][(IsApplyStep /\ emmInstalled) =>
          /\ applyCalls' = NoCalls
          /\ emmInteractive' = emmInteractive
          /\ emmInstalled' = emmInstalled
          /\ textBox' = alreadyInstalledText
          /\ ~applyButtonEnabled']_vars

\* onApply has just run on an installed extension while popups were enabled
C6_Witness ==
    /\ lastOp = "onApply"
    /\ emmInstalled
    /\ emmInteractive
    /\ textBox = alreadyInstalledText
    /\ applyCalls = NoCalls

\* C7: after an onApply whose install call returned failure the text box
\* shows errorText (with version, revision and platform), the button is
\* disabled and no restart confirmation was requested; a restart
\* confirmation is requested only after an install call that succeeded.
C7_FailureEndsInErrorState ==
    lastOp = "onApply" =>
        /\ applyCalls.installResult = "failure" =>
              /\ textBox = errorText
              /\ ~applyButtonEnabled
              /\ CountOf(applyCalls.log, "confirmRestart") = 0
        /\ CountOf(applyCalls.log, "confirmRestart") > 0 =>
              /\ applyCalls.installResult = "success"
              /\ applyCalls.log[Len(applyCalls.log)] = "confirmRestart"
              /\ applyCalls.log[Len(applyCalls.log) - 1]
                    = "downloadAndInstallExtensionByName"

\* an install call has just failed
C7_Witness ==
    /\ lastOp = "onApply"
    /\ applyCalls.installResult = "failure"
    /\ textBox = errorText

\* C8: one onApply issues at most one install call, and then exactly one
\* metadata refresh right before it; once an install call of the widget has
\* failed its button is disabled and the widget issues no further install.
C8_NoRetries ==
    /\ [](/\ CountOf(applyCalls.log, "downloadAndInstallExtensionByName") <= 1
          /\ CountOf(applyCalls.log, "downloadAndInstallExtensionByName") = 1 =>
                /\ CountOf(applyCalls.log, "updateExtensionsMetadataFromServer") = 1
                /\ SubSeq(applyCalls.log, 1, 2)
                      = <<"updateExtensionsMetadataFromServer",
                          "downloadAndInstallExtensionByName">>
          /\ widgetInstallFailed => ~applyButtonEnabled)
    /\ [][(widgetInstallFailed /\ widgetInstallFailed') =>
             widgetInstallCalls' = widgetInstallCalls]_vars

\* the widget's install failed earlier and other steps have followed
C8_Witness ==
    /\ widgetInstallFailed
    /\ widgetInstallCalls = 1
    /\ lastOp = "host"
    /\ ~emmInstalled

(***************************************************************************)
(* Claims about the slice views and their observers, checked under Spec.   *)
(***************************************************************************)
AllCornersEmpty(v) == \A i \in Corners : cornerAnnotation[v][i] = ""

\* the last step was a Modified event of an observed slice logic that has
\* its composite node and its slice node, taken with annotations enabled
EventOnReadyView ==
    /\ lastOp = "updateViewAnnotations"
    /\ self.sliceViewAnnotationsEnabled # 0
    /\ sliceLogic[calls.caller].compositeNode
    /\ sliceLogic[calls.caller].sliceNode

\* C1: right after the user has unchecked the enabled check box, the four
\* corner texts of every slice view that had annotations are empty.
C1_DisablingClearsCorners ==
    (lastOp = "onSliceViewAnnotationsCheckBox" /\ ~gui.sliceViewAnnotationsCheckBox)
        => \A v \in self.sliceViews : AllCornersEmpty(v)

\* C2: whenever annotations are enabled, every view of sliceViewNames has
\* the updateViewAnnotations observer on its slice logic.
C2_EnabledViewsAreObserved ==
    self.sliceViewAnnotationsEnabled # 0 =>
        \A k \in 1..Len(self.sliceViewNames) :
            <<self.sliceViewNames[k], "updateViewAnnotations">> \in self.observations

C4_CacheBoundedAndHoldsLastUid ==
    /\ Len(self.extractedDICOMValuesCache) <= extractedDICOMValuesCacheSize
    /\ cacheCall.made => cacheCall.uid \in CacheUids(self.extractedDICOMValuesCache)

\* a new uid has just been stored in a full cache, which evicted an entry
C4_Witness ==
    /\ cacheCall.made
    /\ ~cacheCall.hit
    /\ cacheCall.wasFull
    /\ cacheCall.evicted # {}
    /\ Len(self.extractedDICOMValuesCache) = extractedDICOMValuesCacheSize

\* C5: when a call stores a new uid in a full cache, the entry evicted is
\* the least recently used one (looked up or inserted).
C5_EvictsLeastRecentlyUsed ==
    (cacheCall.made /\ ~cacheCall.hit /\ cacheCall.wasFull)
        => cacheCall.evicted = {cacheCall.leastRecent}


(***************************************************************************)
(* Claim about fitText, checked under SpecFit.                             *)
(***************************************************************************)
\* result is a prefix of text, "..." and a suffix of text
IsTruncationOf(result, text) ==
    \E pre \in 0..Len(text), post \in 0..Len(text) :
        result = SubSeq(text, 1, pre) \o "..."
                     \o SubSeq(text, Len(text) - post + 1, Len(text))

\* C10: for every text and every text size drawCornerAnnotations computes,
\* fitText returns the text unchanged if it fits, and otherwise a prefix,
\* "..." and a suffix of it that together are no longer than the text size
\* nor than the text.
C10_FitTextBoundsText ==
    fitCall.made =>
        IF Len(fitCall.text) <= fitCall.textSize
        THEN fitCall.result = fitCall.text
        ELSE /\ Len(fitCall.result) <= fitCall.textSize
             /\ Len(fitCall.result) <= Len(fitCall.text)
             /\ IsTruncationOf(fitCall.result, fitCall.text)


\* a text of eight characters fitted to six in a view 124 pixels wide
C10_Witness ==
    /\ fitCall.made
    /\ fitCall.text = "abcdefgh"
    /\ fitCall.viewWidth = 124
    /\ fitCall.fontSize = DEFAULTS.fontSize
    /\ fitCall.textSize = 6
    /\ fitCall.result = "abc...abcdefgh"


(***************************************************************************)
(* Claim about the DICOM annotations, checked under SpecDicom.             *)
(***************************************************************************)
\* the lines of the bottom-left corner that name the layers of a slice logic
LayerLabels(sl) ==
    (IF sl.label # NoVolume
     THEN "L: " \o VolumeNodes[sl.label].name \o " ("
              \o IntToStr(OpacityPercent(sl.labelOpacity)) \o "%)\n"
     ELSE "")
    \o (IF sl.foreground # NoVolume
        THEN "F: " \o VolumeNodes[sl.foreground].name
                 \o (IF sl.background # NoVolume
                     THEN " (" \o IntToStr(OpacityPercent(sl.foregroundOpacity)) \o "%)"
                     ELSE "")
                 \o "\n"
        ELSE "")
    \o (IF sl.background # NoVolume
        THEN "B: " \o VolumeNodes[sl.background].name \o "\n"
        ELSE "")

\* the keys of the top-right corner that makeDicomAnnotation fills
AcquisitionKeys ==
    {"1-Institution-Name", "2-Referring-Phisycian", "3-Manufacturer", "4-Model",
     "5-Patient-Position", "6-TR", "7-TE"}

\* C9: an event handled while the DICOM database is not open looks nothing
\* up in the database, leaves the cache as it was and the DICOM corner texts
\* empty, raises no error, and still draws the B:/F:/L: lines of the layers.
C9_ClosedDatabaseSkipsEnrichment ==
    [][(EventOnReadyView' /\ ~dicomDatabaseIsOpen') =>
          /\ calls'.dbLookups = 0
          /\ ~calls'.raised
          /\ self'.extractedDICOMValuesCache = self.extractedDICOMValuesCache
          /\ \A key \in KeySet(2) : self'.cornerTexts[2][key] = ""
          /\ \A key \in AcquisitionKeys : self'.cornerTexts[3][key] = ""
          /\ self'.bottomLeft # 0 =>
                cornerAnnotation'[calls'.caller][0]
                    = LayerLabels(sliceLogic'[calls'.caller])]_vars

\* with the database closed and the top-left corner on, an event of a view
\* with two DICOM volumes and a label has drawn the three layer lines only
C9_Witness ==
    /\ EventOnReadyView
    /\ ~dicomDatabaseIsOpen
    /\ self.topLeft # 0
    /\ sliceLogic[calls.caller].background = "MR1"
    /\ sliceLogic[calls.caller].foreground = "MR2"
    /\ sliceLogic[calls.caller].label = "Seg"
    /\ cornerAnnotation[calls.caller][0] = "L: Seg (100%)\nF: MR2 (50%)\nB: MR1\n"
    /\ cornerAnnotation[calls.caller][2] = ""

(***************************************************************************)
(* Claim about the display level, checked under SpecLevels.                *)
(***************************************************************************)
\* the last handler has drawn the corners of the view
Drawn(v) ==
    /\ self.sliceViewAnnotationsEnabled # 0
    /\ ~calls.raised
    /\ \A i \in Corners : calls.setText[v][i] >= 1

\* the entry is one the display level lets through
IncludedAtLevel(level, i, key) ==
    \/ level = 0
    \/ level = 1 /\ Category(i, key) \in {"A", "B"}
    \/ level = 2 /\ Category(i, key) = "A"

RECURSIVE IncludedLines(_, _, _, _)
\* the fitted texts of the entries of corner i that are not empty and that
\* the level lets through, from the k-th key on in sorted key order
IncludedLines(texts, i, k, level) ==
    IF k > Len(CornerKeys(i)) THEN ""
    ELSE (IF texts[CornerKeys(i)[k]] # "" /\ IncludedAtLevel(level, i, CornerKeys(i)[k])
          THEN fitText(texts[CornerKeys(i)[k]], self.maximumTextLength) \o "\n"
          ELSE "")
         \o IncludedLines(texts, i, k + 1, level)

\* the entries of corner i the code draws at the level
DrawnKeys(i, level) ==
    {key \in KeySet(i) : /\ self.cornerTexts[i][key] # ""
                         /\ Displayed(level, Category(i, key))}

\* C11: the text drawn in a corner is made of the entries that are not empty
\* and that the display level lets through (level 0: all; level 1:
\* categories A and B; level 2: category A), one line each in sorted key
\* order; so what is drawn at level 2 is drawn at level 1, and what is drawn
\* at level 1 is drawn at level 0.
C11_LevelFiltersCategories ==
    Drawn("Red") =>
        \A i \in Corners :
            /\ cornerAnnotation["Red"][i]
                  = IncludedLines(self.cornerTexts[i], i, 1, self.annotationsDisplayAmount)
            /\ \A level \in 0..2 :
                  CornerLines(self.cornerTexts[i], i, 1, self.maximumTextLength, level)
                      = IncludedLines(self.cornerTexts[i], i, 1, level)
            /\ DrawnKeys(i, 2) \subseteq DrawnKeys(i, 1)
            /\ DrawnKeys(i, 1) \subseteq DrawnKeys(i, 0)

\* at level 1 the top-left corner of a DICOM volume shows the entries of
\* categories A and B and leaves out the series time and description
C11_Witness ==
    /\ Drawn("Red")
    /\ self.annotationsDisplayAmount = 1
    /\ self.cornerTexts[2]["6-Bg-SeriesTime"] = "09:30:00 AM"
    /\ self.cornerTexts[2]["8-Bg-SeriesDescription"] = "T1"
    /\ cornerAnnotation["Red"][2]
          = "Doe, Jo\nID: P1\n1970-01-02, 050Y, M\n2020-03-04\n"

(***************************************************************************)
(* Claims about the forced top-right corner, checked under SpecLevels.     *)
(***************************************************************************)
\* the step is a click on the top-right check box: a corner click that
\* leaves the two other check boxes as they were
IsTopRightClick ==
    /\ lastOp' = "onCornerTextsActivationCheckBox"
    /\ gui'.topLeftCheckBox = gui.topLeftCheckBox
    /\ gui'.bottomLeftCheckBox = gui.bottomLeftCheckBox

\* C14: the topRight value of the settings store changes only when the user
\* clicks the top-right check box or restores the defaults; a click on the
\* top-left or bottom-left check box after slab reconstruction forced the
\* top-right corner on does not store topRight = 1.
C14_ForcedTopRightIsNotStored ==
    [][settingsValue(settings', "topRight") # settingsValue(settings, "topRight")
          => (IsTopRightClick \/ lastOp' = "restoreDefaultValues")]_vars

\* C15: once slab reconstruction has forced the top-right corner on,
\* allowForcingTopRightVisibility stays False; topRight goes from 0 to 1 only
\* by a click on the top-right check box or by that one forcing, so after
\* the user has unchecked the box it stays 0 through every later
\* makeAnnotationText, and the slab thickness and type texts are then empty.
C15_TopRightForcedAtMostOnce ==
    /\ [][~self.allowForcingTopRightVisibility
             => ~self'.allowForcingTopRightVisibility]_vars
    /\ [][(self.topRight = 0 /\ self'.topRight # 0)
             => \/ IsTopRightClick
                \/ /\ self.allowForcingTopRightVisibility
                   /\ ~self'.allowForcingTopRightVisibility]_vars
    /\ []((Drawn("Red") /\ self.topRight = 0) =>
             /\ self.cornerTexts[3]["8-SlabReconstructionThickness"] = ""
             /\ self.cornerTexts[3]["9-SlabReconstructionType"] = "")

\* after the forcing and the user's uncheck, a Modified event of the view
\* with slab reconstruction still enabled has left the top-right corner off
C15_Witness ==
    /\ EventOnReadyView
    /\ Drawn("Red")
    /\ sliceLogic["Red"].slabReconstructionEnabled
    /\ ~self.allowForcingTopRightVisibility
    /\ self.topRight = 0
    /\ ~gui.topRightCheckBox
    /\ cornerAnnotation["Red"][3] = ""

(***************************************************************************)
(* Claim about the preferences, checked under SpecPrefs.                   *)
(***************************************************************************)
\* the value of each preference the object holds
PreferenceInMemory ==
    [enabled |-> self.sliceViewAnnotationsEnabled,
     displayLevel |-> self.annotationsDisplayAmount,
     topLeft |-> self.topLeft,
     topRight |-> self.topRight,
     bottomLeft |-> self.bottomLeft,
     fontFamily |-> self.fontFamily,
     fontSize |-> self.fontSize,
     bgDICOMAnnotationsPersistence |-> self.backgroundDICOMAnnotationsPersistence]

\* C12: when restoreDefaultValues has completed, each of the eight
\* preferences has its DEFAULTS value in memory, and the settings store
\* gives that value for it.
C12_RestoreSetsAndSavesDefaults ==
    lastOp = "restoreDefaultValues" =>
        \A key \in DOMAIN DEFAULTS :
            /\ PreferenceInMemory[key] = DEFAULTS[key]
            /\ settingsValue(settings, key) = DEFAULTS[key]

\* the defaults were restored after the second display level was chosen:
\* the object is back at level 0 and the store still gives level 1
C12_Witness ==
    /\ lastOp = "restoreDefaultValues"
    /\ PreferenceInMemory = DEFAULTS
    /\ settingsValue(settings, "displayLevel") = 1
    /\ \A key \in DOMAIN DEFAULTS \ {"displayLevel"} :
          settingsValue(settings, key) = DEFAULTS[key]

(***************************************************************************)
(* Claims about the DICOM annotations of two layers and about repeated     *)
(* events, checked under SpecDicom.                                        *)
(***************************************************************************)
\* C13: every entry of the cache holds, for each field, the value the
\* database gave for its uid when the entry was inserted, which is the value
\* the database gives now.
C13_CachedValuesAreDatabaseValues ==
    \A k \in 1..Len(self.extractedDICOMValuesCache) :
        self.extractedDICOMValuesCache[k].values
            = databaseValues(self.extractedDICOMValuesCache[k].uid)

\* an event has drawn the patient of instance 1.1, and the cache now holds
\* the formatted birth date where the database holds "19700102"
C13_Witness ==
    /\ EventOnReadyView
    /\ ~calls.raised
    /\ Len(self.extractedDICOMValuesCache) = 1
    /\ self.extractedDICOMValuesCache[1].uid = "1.1"
    /\ self.extractedDICOMValuesCache[1].values["Patient Birth Date"] = "1970-01-02"
    /\ databaseValues("1.1")["Patient Birth Date"] = "19700102"

\* the first instance uid of a volume node
FirstUid(vol) == PartitionHead(VolumeNodes[vol].instanceUIDs)

\* the slice logic shows a background and a foreground DICOM volume
BothDicom(sl) ==
    /\ sl.background # NoVolume
    /\ sl.foreground # NoVolume
    /\ FirstUid(sl.background) # ""
    /\ FirstUid(sl.foreground) # ""

\* the database gives the two volumes different values for the field
FieldDiffers(sl, field) ==
    databaseValues(FirstUid(sl.background))[field]
        # databaseValues(FirstUid(sl.foreground))[field]

\* some top-left entry is the text
TopLeftHas(text) == \E key \in KeySet(2) : self.cornerTexts[2][key] = text

\* the view's background and foreground are DICOM volumes of one patient,
\* drawn with the top-left corner on, the view high enough and the database
\* open
OnePatientDrawn ==
    /\ Drawn("Red")
    /\ dicomDatabaseIsOpen
    /\ self.topLeft # 0
    /\ sliceLogic["Red"].height > 150
    /\ BothDicom(sliceLogic["Red"])
    /\ \A field \in {"Patient Name", "Patient ID", "Patient Birth Date"} :
          ~FieldDiffers(sliceLogic["Red"], field)

\* C17: when background and foreground are DICOM volumes of one patient
\* whose Series Time values differ, the top-left entries hold "B: " with the
\* formatted time of the background and "F: " with that of the foreground.
C17_SeriesTimesShownAsPair ==
    (OnePatientDrawn /\ FieldDiffers(sliceLogic["Red"], "Series Time"))
        => /\ TopLeftHas("B: " \o formatDICOMTime(
                  databaseValues(FirstUid(sliceLogic["Red"].background))["Series Time"]))
           /\ TopLeftHas("F: " \o formatDICOMTime(
                  databaseValues(FirstUid(sliceLogic["Red"].foreground))["Series Time"]))

\* two series of one patient are drawn: the dates and the descriptions come
\* as B:/F: pairs, the time of the background alone
C17_Witness ==
    /\ OnePatientDrawn
    /\ sliceLogic["Red"].background = "MR1"
    /\ sliceLogic["Red"].foreground = "MR2"
    /\ TopLeftHas("B: 2020-03-04")
    /\ TopLeftHas("F: 2020-03-05")
    /\ TopLeftHas("B: T1")
    /\ TopLeftHas("F: T2")
    /\ TopLeftHas("B: 09:30:00 AM")
    /\ ~TopLeftHas("F: 2:30:00 PM")

\* C18: a Modified event of a view that follows a Modified event of the
\* same view, with the slice logic and the database as they were at the
\* first one, leaves the four corner texts of the view as the first one set
\* them.
C18_RepeatedEventDrawsSameText ==
    [][(/\ EventOnReadyView
        /\ ~calls.raised
        /\ EventOnReadyView'
        /\ ~calls'.raised
        /\ calls'.caller = calls.caller
        /\ sliceLogic' = sliceLogic
        /\ dicomDatabaseIsOpen' = dicomDatabaseIsOpen)
          => cornerAnnotation'[calls.caller] = cornerAnnotation[calls.caller]]_vars

\* the second of two such events has drawn the birth date formatted twice
C18_Witness ==
    /\ EventOnReadyView
    /\ ~calls.raised
    /\ sliceLogic["Red"].background = "MR1"
    /\ sliceLogic["Red"].foreground = NoVolume
    /\ cornerAnnotation["Red"][2]
          = "Doe, Jo\nID: P1\n1970--0-1-02, 050Y, M\n2020-03-04\n09:30:00 AM\nT1\n"

(***************************************************************************)
(* Claim about volumes of two patients, checked under SpecPatients.        *)
(***************************************************************************)
\* C16: after a draw of a view whose background and foreground DICOM volumes
\* differ in Patient Name, Patient ID or Patient Birth Date, every top-left
\* entry is empty and so is the top-left text of the view, whatever topLeft
\* and the height of the view are.
C16_TwoPatientsHideTopLeft ==
    (/\ Drawn("Red")
     /\ BothDicom(sliceLogic["Red"])
     /\ \E field \in {"Patient Name", "Patient ID", "Patient Birth Date"} :
           FieldDiffers(sliceLogic["Red"], field))
        => /\ \A key \in KeySet(2) : self.cornerTexts[2][key] = ""
           /\ cornerAnnotation["Red"][2] = ""

\* the two volumes, whose birth dates differ in the database, were each
\* drawn alone before, and the view now shows the patient of the background
C16_Witness ==
    /\ EventOnReadyView
    /\ Drawn("Red")
    /\ sliceLogic["Red"].background = "MR1"
    /\ sliceLogic["Red"].foreground = "MR3"
    /\ FieldDiffers(sliceLogic["Red"], "Patient Birth Date")
    /\ self.cornerTexts[2]["1-PatientName"] = "Doe, Jo"
    /\ self.cornerTexts[2]["2-PatientID"] = "ID: P1"

=============================================================================
